---- MODULE Spec2Model ----
(***************************************************************************)
(* Model of the InventorySystem domain object of the inventory management *)
(* system (src/src/main.py): the credential store `users`, the catalog    *)
(* `products`, the session `current_user`, and the handlers add_user,     *)
(* login, logout (the assignment of the menu loop), add_product,          *)
(* update_product, delete_product, get_product, search_products and       *)
(* get_low_stock_products.  The InventorySystem of the browser front-end  *)
(* (src/src/product.py), which keeps its state in st.session_state, is    *)
(* modelled next to it, its definitions under the prefix st_.             *)
(*                                                                         *)
(* Every handler runs to completion before the next one starts (the       *)
(* program is single-threaded), so each handler is one action.  What a    *)
(* handler returns or raises is recorded in `outcome`, and which handler  *)
(* ran, with the product id it was about, in `call`.                      *)
(*                                                                         *)
(* The specifications call the same handlers with different inputs: Spec  *)
(* with any account and one row of product data, SpecCatalog with the     *)
(* default accounts and updates of every subset of the product fields,    *)
(* SpecQueries with the default accounts, stock quantities around the     *)
(* threshold and several search terms.  SpecBoth makes every call on both *)
(* systems, with the same arguments.                                      *)
(***************************************************************************)
EXTENDS Integers, FiniteSets, Sequences, TLC

(***************************************************************************)
(* Bounds of the model.                                                    *)
(***************************************************************************)
\* add_product is explored while the catalog holds fewer records than this.
MaxProducts == 2
\* The wall clock read by datetime.now() takes the values 0..MaxClock.
MaxClock == 1

(***************************************************************************)
(* Inputs the handlers are called with.                                    *)
(***************************************************************************)
Usernames == {"admin", "user", "bob"}
\* The usernames of the two default accounts.
DefaultUsernames == {"admin", "user"}
Passwords == {"admin123", "user123"}
Roles == {"Admin", "User"}
FieldNames == {"name", "category", "price", "stock_quantity"}
\* Two rows of product data that differ in every field; price is a float in
\* the source and is counted in cents here.
Widget == [name |-> "Widget", category |-> "Tools", price |-> 999, stock_quantity |-> 3]
Blank == [name |-> "", category |-> "Toys", price |-> -1, stock_quantity |-> -1]
\* A third row, for the queries: its name matches "tool", its category does
\* not, and its stock is above the threshold.
Toolbox == [name |-> "Toolbox", category |-> "Toys", price |-> 1999, stock_quantity |-> 6]
\* Search terms: one of each letter case, and the empty one.
Terms == {"tool", "TOY", "Wid", ""}
\* Product ids a caller may pass: every id the catalog can hold and one more.
ProductIds == 1..(MaxProducts + 1)

\* Python's None, a value different from every User and every Product.
None == [is_none |-> TRUE]

\* The dict with no keys.
EmptyDict == [k \in {} |-> None]

\* The keyword arguments of update_product that are not None, as a dict
\* from the names of the fields given to their new values: every subset of
\* the fields of a row.
Restrict(f, S) == [k \in S |-> f[k]]
Updates(rows) == { Restrict(f, S) : f \in rows, S \in SUBSET FieldNames }
\* The rows add_product is called with in the catalog specification.
CatalogRows == {Widget, Blank}
\* The updates of the catalog specification: any of the fields, to the
\* values of the Blank row.
CatalogUpdates == Updates({Blank})

VARIABLES
    users,          \* self.users: username -> User
    products,       \* self.products: product_id -> Product
    order,          \* the keys of self.products in the order the dict holds them
    current_user,   \* self.current_user: a User of the store or None
    now,            \* what datetime.now() returns at this moment
    call,           \* the handler that ran last, the product id it was about,
                    \* for a search the term, for a login the username of the
                    \* session it found ("" when nobody was logged in)
    outcome,        \* what that handler returned or raised
    returned,       \* the list it returned, <<>> when it returned no list
    registered,     \* history: username -> the password it was registered with
    assigned,       \* history: the ids add_product has given out so far
    session_state,  \* product.py: st.session_state, with the keys users,
                    \* products, current_user and stock_threshold
    st_order,       \* product.py: the keys of st.session_state.products in
                    \* the order the dict holds them
    st_outcome,     \* product.py: what the last method returned or raised
    st_returned     \* product.py: the list it returned, <<>> otherwise

\* The state of the system of product.py.
st_vars == <<session_state, st_order, st_outcome, st_returned>>

vars == <<users, products, order, current_user, now, call, outcome, returned,
          registered, assigned, session_state, st_order, st_outcome,
          st_returned>>

(***************************************************************************)
(* class User                                                              *)
(***************************************************************************)
\* hashlib.sha256(password.encode()).hexdigest(): the leading 16 bits of the
\* real digests of the passwords of the model.
_hash_password(password) ==
    CASE password = "admin123" -> 9227      \* 240be518...
      [] password = "user123"  -> 58886     \* e606e38b...

User(username, password, role) ==
    [username |-> username, password |-> _hash_password(password), role |-> role]

\* check_password as it would be if it compared nothing.
check_password_Any(user, password) == TRUE

check_password(user, password) == _hash_password(password) = user.password

(***************************************************************************)
(* class Product                                                           *)
(***************************************************************************)
\* The constructor as it would be with a fixed last_updated.
Product_FixedStamp(product_id, name, category, price, stock_quantity, t) ==
    [product_id |-> product_id, name |-> name, category |-> category,
     price |-> price, stock_quantity |-> stock_quantity, last_updated |-> 0]

Product(product_id, name, category, price, stock_quantity, t) ==
    [product_id |-> product_id, name |-> name, category |-> category,
     price |-> price, stock_quantity |-> stock_quantity, last_updated |-> t]

(***************************************************************************)
(* class InventorySystem                                                   *)
(***************************************************************************)
\* add_user as it would be without its membership test.
StoreAfterAddUser_Overwrite(us, username, password, role) ==
    [u \in DOMAIN us \cup {username} |->
        IF u = username THEN User(username, password, role) ELSE us[u]]

\* The store after add_user: a new username gets a new User, an existing one
\* is left alone.
StoreAfterAddUser(us, username, password, role) ==
    IF username \notin DOMAIN us
    THEN us @@ (username :> User(username, password, role))
    ELSE us

\* _initialize_system as it would be without its second add_user.
_initialize_system_AdminOnly ==
    StoreAfterAddUser(EmptyDict, "admin", "admin123", "Admin")

\* _initialize_system: the two default accounts, added to the empty store.
_initialize_system ==
    StoreAfterAddUser(StoreAfterAddUser(EmptyDict, "admin", "admin123", "Admin"),
                      "user", "user123", "User")

\* product.py, add_user: the store after the call.
st_UsersAfterAddUser(us, username, password, role) ==
    IF username \notin DOMAIN us
    THEN [u \in DOMAIN us \cup {username} |->
            IF u = username THEN User(username, password, role) ELSE us[u]]
    ELSE us

\* product.py, _initialize_system.
st__initialize_system ==
    st_UsersAfterAddUser(
        st_UsersAfterAddUser(EmptyDict, "admin", "admin123", "Admin"),
        "user", "user123", "User")

\* product.py, __init__ on the first run of the script: the keys of
\* st.session_state are created and the default accounts added.
st_Init ==
    /\ session_state = [users |-> st__initialize_system,
                        products |-> EmptyDict,
                        current_user |-> None,
                        stock_threshold |-> 5]
    /\ st_order = <<>>
    /\ st_outcome = "None"
    /\ st_returned = <<>>

\* __init__: empty catalog, nobody logged in, the default accounts.
Init ==
    /\ st_Init
    /\ users = _initialize_system
    /\ products = EmptyDict
    /\ order = <<>>
    /\ current_user = None
    /\ now = 0
    /\ call = [op |-> "__init__", product_id |-> 0]
    /\ outcome = "None"
    /\ returned = <<>>
    /\ registered = ("admin" :> "admin123") @@ ("user" :> "user123")
    /\ assigned = {}

\* The passing of time between two handlers.
Tick ==
    /\ now < MaxClock
    /\ now' = now + 1
    /\ UNCHANGED <<users, products, order, current_user, call, outcome,
                   returned, registered, assigned>>
    /\ UNCHANGED st_vars

\* add_user as it would be if a second registration changed the role.
add_user_ChangesRole(username, password, role) ==
    /\ call' = [op |-> "add_user", product_id |-> 0]
    /\ IF username \notin DOMAIN users
       THEN /\ users' = StoreAfterAddUser(users, username, password, role)
            /\ registered' = registered @@ (username :> password)
            /\ outcome' = "True"
       ELSE /\ users' = [users EXCEPT ![username].role = role]
            /\ registered' = registered
            /\ outcome' = "False"
    /\ returned' = <<>>
    /\ UNCHANGED <<products, order, current_user, now, assigned>>

add_user(username, password, role) ==
    /\ call' = [op |-> "add_user", product_id |-> 0]
    /\ users' = StoreAfterAddUser(users, username, password, role)
    /\ IF username \notin DOMAIN users
       THEN /\ registered' = registered @@ (username :> password)
            /\ outcome' = "True"
       ELSE /\ registered' = registered
            /\ outcome' = "False"
    /\ returned' = <<>>
    /\ UNCHANGED <<products, order, current_user, now, assigned>>

\* The condition of login's if.
Verified(us, username, password) ==
    username \in DOMAIN us /\ check_password(us[username], password)

\* login as it would be if a failure ended the session.
login_FailureLogsOut(username, password) ==
    /\ call' = [op |-> "login", product_id |-> 0,
                prior |-> IF current_user = None THEN "" ELSE current_user.username]
    /\ IF Verified(users, username, password)
       THEN /\ current_user' = users[username]
            /\ outcome' = "True"
       ELSE /\ current_user' = None
            /\ outcome' = "False"
    /\ returned' = <<>>
    /\ UNCHANGED <<users, products, order, now, registered, assigned>>

\* login as it would be if it kept the session it found.
login_KeepSession(username, password) ==
    /\ call' = [op |-> "login", product_id |-> 0,
                prior |-> IF current_user = None THEN "" ELSE current_user.username]
    /\ IF Verified(users, username, password)
       THEN /\ current_user' = IF current_user = None THEN users[username]
                               ELSE current_user
            /\ outcome' = "True"
       ELSE /\ current_user' = current_user
            /\ outcome' = "False"
    /\ returned' = <<>>
    /\ UNCHANGED <<users, products, order, now, registered, assigned>>

login(username, password) ==
    /\ call' = [op |-> "login", product_id |-> 0,
                prior |-> IF current_user = None THEN "" ELSE current_user.username]
    /\ IF Verified(users, username, password)
       THEN /\ current_user' = users[username]
            /\ outcome' = "True"
       ELSE /\ current_user' = current_user
            /\ outcome' = "False"
    /\ returned' = <<>>
    /\ UNCHANGED <<users, products, order, now, registered, assigned>>

\* logout as it would be if it forgot to clear the session.
logout_Noop ==
    /\ call' = [op |-> "logout", product_id |-> 0]
    /\ current_user' = current_user
    /\ outcome' = "None"
    /\ returned' = <<>>
    /\ UNCHANGED <<users, products, order, now, registered, assigned>>

logout ==
    /\ call' = [op |-> "logout", product_id |-> 0]
    /\ current_user' = None
    /\ outcome' = "None"
    /\ returned' = <<>>
    /\ UNCHANGED <<users, products, order, now, registered, assigned>>

\* The guard as it would be if it tested the session only, not the role.
NotAdmin_AnonymousOnly(user) == user = None

\* The guard of the three mutating handlers:
\* not self.current_user or self.current_user.role != "Admin".
NotAdmin(user) == user = None \/ user.role # "Admin"

\* The new id as it would be counted from 0.
NewProductId_ZeroBased(ps) == Cardinality(DOMAIN ps)

\* product_id = len(self.products) + 1
NewProductId(ps) == Cardinality(DOMAIN ps) + 1

\* self.products[product_id] = product
SetItem(ps, product_id, product) ==
    [id \in DOMAIN ps \cup {product_id} |->
        IF id = product_id THEN product ELSE ps[id]]

\* The keys after self.products[product_id] = product: a new key goes to the
\* end, a key the dict holds keeps its place.
KeysAfterSetItem(keys, product_id) ==
    IF \E i \in 1..Len(keys) : keys[i] = product_id
    THEN keys
    ELSE Append(keys, product_id)

add_product(name, category, price, stock_quantity) ==
    IF NotAdmin(current_user)
    THEN /\ call' = [op |-> "add_product", product_id |-> 0]
         /\ outcome' = "PermissionError"
         /\ returned' = <<>>
         /\ UNCHANGED <<users, products, order, current_user, now,
                        registered, assigned>>
    ELSE LET product_id == NewProductId(products) IN
         /\ Cardinality(DOMAIN products) < MaxProducts
         /\ call' = [op |-> "add_product", product_id |-> product_id]
         /\ products' = SetItem(products, product_id,
                Product(product_id, name, category, price, stock_quantity, now))
         /\ order' = KeysAfterSetItem(order, product_id)
         /\ outcome' = "True"
         /\ returned' = <<>>
         /\ assigned' = assigned \cup {product_id}
         /\ UNCHANGED <<users, current_user, now, registered>>

\* The update as it would be without the refresh of last_updated.
UpdatedProduct_StaleStamp(product, fields, t) ==
    [k \in DOMAIN product |->
        IF k \in DOMAIN fields THEN fields[k] ELSE product[k]]

\* The body of update_product after its two checks: the fields given are
\* overwritten, last_updated is set to the time of the call.
UpdatedProduct(product, fields, t) ==
    [k \in DOMAIN product |->
        IF k \in DOMAIN fields THEN fields[k]
        ELSE IF k = "last_updated" THEN t
        ELSE product[k]]

update_product(product_id, fields) ==
    /\ call' = [op |-> "update_product", product_id |-> product_id]
    /\ IF NotAdmin(current_user)
       THEN /\ outcome' = "PermissionError"
            /\ products' = products
       ELSE IF product_id \notin DOMAIN products
       THEN /\ outcome' = "ValueError"
            /\ products' = products
       ELSE /\ products' = SetItem(products, product_id,
                   UpdatedProduct(products[product_id], fields, now))
            /\ outcome' = "True"
    /\ returned' = <<>>
    /\ UNCHANGED <<users, order, current_user, now, registered, assigned>>

\* The removal as it would be with self.products.clear().
DelItem_Clear(ps, product_id) == [id \in {} |-> ps[id]]

\* del self.products[product_id]
DelItem(ps, product_id) == [id \in DOMAIN ps \ {product_id} |-> ps[id]]

\* The keys after del self.products[product_id].
KeysAfterDelItem(keys, product_id) ==
    SelectSeq(keys, LAMBDA id : id # product_id)

\* delete_product as it would be with self.products.pop(product_id, None)
\* in place of the membership test and the del.
delete_product_Silent(product_id) ==
    /\ call' = [op |-> "delete_product", product_id |-> product_id]
    /\ IF NotAdmin(current_user)
       THEN /\ outcome' = "PermissionError"
            /\ UNCHANGED <<products, order>>
       ELSE /\ products' = DelItem(products, product_id)
            /\ order' = KeysAfterDelItem(order, product_id)
            /\ outcome' = "True"
    /\ returned' = <<>>
    /\ UNCHANGED <<users, current_user, now, registered, assigned>>

delete_product(product_id) ==
    /\ call' = [op |-> "delete_product", product_id |-> product_id]
    /\ IF NotAdmin(current_user)
       THEN /\ outcome' = "PermissionError"
            /\ UNCHANGED <<products, order>>
       ELSE IF product_id \notin DOMAIN products
       THEN /\ outcome' = "ValueError"
            /\ UNCHANGED <<products, order>>
       ELSE /\ products' = DelItem(products, product_id)
            /\ order' = KeysAfterDelItem(order, product_id)
            /\ outcome' = "True"
    /\ returned' = <<>>
    /\ UNCHANGED <<users, current_user, now, registered, assigned>>

\* self.products.get(product_id)
Get(ps, product_id) == IF product_id \in DOMAIN ps THEN ps[product_id] ELSE None

\* get_product as it would be if a read refreshed last_updated.
get_product_Touch(product_id) ==
    /\ call' = [op |-> "get_product", product_id |-> product_id]
    /\ outcome' = IF Get(products, product_id) = None THEN "None" ELSE "Product"
    /\ products' = IF product_id \in DOMAIN products
                   THEN [products EXCEPT ![product_id].last_updated = now]
                   ELSE products
    /\ returned' = <<>>
    /\ UNCHANGED <<users, order, current_user, now, registered, assigned>>

get_product(product_id) ==
    /\ call' = [op |-> "get_product", product_id |-> product_id]
    /\ outcome' = IF Get(products, product_id) = None THEN "None" ELSE "Product"
    /\ returned' = <<>>
    /\ UNCHANGED <<users, products, order, current_user, now,
                   registered, assigned>>

(***************************************************************************)
(* str: the characters of the strings of the model, str.lower and the     *)
(* substring test `a in b`.                                               *)
(***************************************************************************)
Chars(s) ==
    CASE s = ""        -> <<>>
      [] s = "Widget"  -> <<"W", "i", "d", "g", "e", "t">>
      [] s = "Toolbox" -> <<"T", "o", "o", "l", "b", "o", "x">>
      [] s = "Tools"   -> <<"T", "o", "o", "l", "s">>
      [] s = "Toys"    -> <<"T", "o", "y", "s">>
      [] s = "tool"    -> <<"t", "o", "o", "l">>
      [] s = "TOY"     -> <<"T", "O", "Y">>
      [] s = "Wid"     -> <<"W", "i", "d">>

LowerChar(c) ==
    CASE c = "T" -> "t"
      [] c = "O" -> "o"
      [] c = "Y" -> "y"
      [] c = "W" -> "w"
      [] OTHER   -> c

\* str.lower()
lower(cs) == [i \in 1..Len(cs) |-> LowerChar(cs[i])]

\* sub in cs
In(sub, cs) ==
    \E i \in 0..(Len(cs) - Len(sub)) :
        \A j \in 1..Len(sub) : cs[i + j] = sub[j]

\* self.products.values(): the records in the order of the keys.
Values(ps, keys) == [i \in 1..Len(keys) |-> ps[keys[i]]]

\* self.stock_threshold = 5
stock_threshold == 5

\* The condition as it would be if it looked at the name only.
SearchMatches_NameOnly(product, search_term) ==
    In(lower(Chars(search_term)), lower(Chars(product.name)))

\* The condition of the comprehension of search_products.
SearchMatches(product, search_term) ==
    \/ In(lower(Chars(search_term)), lower(Chars(product.name)))
    \/ In(lower(Chars(search_term)), lower(Chars(product.category)))

\* The list search_products returns.
SearchResult(ps, keys, search_term) ==
    SelectSeq(Values(ps, keys), LAMBDA product : SearchMatches(product, search_term))

search_products(search_term) ==
    /\ call' = [op |-> "search_products", product_id |-> 0,
                search_term |-> search_term]
    /\ outcome' = "List"
    /\ returned' = SearchResult(products, order, search_term)
    /\ UNCHANGED <<users, products, order, current_user, now,
                   registered, assigned>>

\* The list as it would be with < in place of <=.
LowStockResult_Strict(ps, keys, threshold) ==
    SelectSeq(Values(ps, keys), LAMBDA product : product.stock_quantity < threshold)

\* The list get_low_stock_products returns.
LowStockResult(ps, keys, threshold) ==
    SelectSeq(Values(ps, keys), LAMBDA product : product.stock_quantity <= threshold)

get_low_stock_products ==
    /\ call' = [op |-> "get_low_stock_products", product_id |-> 0]
    /\ outcome' = "List"
    /\ returned' = LowStockResult(products, order, stock_threshold)
    /\ UNCHANGED <<users, products, order, current_user, now,
                   registered, assigned>>

(***************************************************************************)
(* class InventorySystem of product.py                                     *)
(***************************************************************************)
st_add_user(username, password, role) ==
    /\ session_state' = [session_state EXCEPT
           !.users = st_UsersAfterAddUser(@, username, password, role)]
    /\ st_outcome' = IF username \notin DOMAIN session_state.users
                     THEN "True" ELSE "False"
    /\ st_returned' = <<>>
    /\ UNCHANGED st_order

st_login(username, password) ==
    /\ IF /\ username \in DOMAIN session_state.users
          /\ check_password(session_state.users[username], password)
       THEN /\ session_state' = [session_state EXCEPT
                   !.current_user = session_state.users[username]]
            /\ st_outcome' = "True"
       ELSE /\ session_state' = session_state
            /\ st_outcome' = "False"
    /\ st_returned' = <<>>
    /\ UNCHANGED st_order

st_logout ==
    /\ session_state' = [session_state EXCEPT !.current_user = None]
    /\ st_outcome' = "None"
    /\ st_returned' = <<>>
    /\ UNCHANGED st_order

\* not st.session_state.current_user or its role != "Admin"
st_NotAdmin == NotAdmin(session_state.current_user)

st_add_product(name, category, price, stock_quantity) ==
    IF st_NotAdmin
    THEN /\ st_outcome' = "PermissionError"
         /\ st_returned' = <<>>
         /\ UNCHANGED <<session_state, st_order>>
    ELSE LET product_id == Cardinality(DOMAIN session_state.products) + 1 IN
         /\ session_state' = [session_state EXCEPT
                !.products = SetItem(@, product_id,
                    Product(product_id, name, category, price, stock_quantity, now))]
         /\ st_order' = KeysAfterSetItem(st_order, product_id)
         /\ st_outcome' = "True"
         /\ st_returned' = <<>>

\* The loop over kwargs as it would be if it stopped after the first key
\* it set.
st_UpdatedProduct_FirstOnly(product, kwargs, t) ==
    LET first == IF DOMAIN kwargs = {} THEN {}
                 ELSE {CHOOSE k \in DOMAIN kwargs : TRUE}
    IN  [k \in DOMAIN product \cup first |->
            IF k = "last_updated" THEN t
            ELSE IF k \in first THEN kwargs[k]
            ELSE product[k]]

\* product.py, update_product after its two checks: setattr for every
\* keyword argument that is not None (kwargs holds these only, as the
\* fields of update_product do), then last_updated is set.
st_UpdatedProduct(product, kwargs, t) ==
    [k \in DOMAIN product \cup DOMAIN kwargs |->
        IF k = "last_updated" THEN t
        ELSE IF k \in DOMAIN kwargs THEN kwargs[k]
        ELSE product[k]]

st_update_product(product_id, kwargs) ==
    /\ IF st_NotAdmin
       THEN /\ st_outcome' = "PermissionError"
            /\ session_state' = session_state
       ELSE IF product_id \notin DOMAIN session_state.products
       THEN /\ st_outcome' = "ValueError"
            /\ session_state' = session_state
       ELSE /\ session_state' = [session_state EXCEPT
                   !.products = SetItem(@, product_id,
                       st_UpdatedProduct(@[product_id], kwargs, now))]
            /\ st_outcome' = "True"
    /\ st_returned' = <<>>
    /\ UNCHANGED st_order

st_delete_product(product_id) ==
    /\ IF st_NotAdmin
       THEN /\ st_outcome' = "PermissionError"
            /\ UNCHANGED <<session_state, st_order>>
       ELSE IF product_id \notin DOMAIN session_state.products
       THEN /\ st_outcome' = "ValueError"
            /\ UNCHANGED <<session_state, st_order>>
       ELSE /\ session_state' = [session_state EXCEPT
                   !.products = DelItem(@, product_id)]
            /\ st_order' = KeysAfterDelItem(st_order, product_id)
            /\ st_outcome' = "True"
    /\ st_returned' = <<>>

st_get_low_stock_products ==
    /\ st_outcome' = "List"
    /\ st_returned' =
           SelectSeq(Values(session_state.products, st_order),
                     LAMBDA product :
                         product.stock_quantity <= session_state.stock_threshold)
    /\ UNCHANGED <<session_state, st_order>>

st_search_products(search_term) ==
    /\ st_outcome' = "List"
    /\ st_returned' =
           LET term == lower(Chars(search_term)) IN
           SelectSeq(Values(session_state.products, st_order),
                     LAMBDA product :
                         \/ In(term, lower(Chars(product.name)))
                         \/ In(term, lower(Chars(product.category))))
    /\ UNCHANGED <<session_state, st_order>>

\* One call of a handler, with its arguments drawn from the given sets.
Handlers(usernames, rows, updates, terms) ==
    \/ \E username \in usernames, password \in Passwords, role \in Roles :
          add_user(username, password, role)
    \/ \E username \in usernames, password \in Passwords :
          login(username, password)
    \/ logout
    \/ \E row \in rows :
          add_product(row.name, row.category, row.price, row.stock_quantity)
    \/ \E product_id \in ProductIds, fields \in updates :
          update_product(product_id, fields)
    \/ \E product_id \in ProductIds : delete_product(product_id)
    \/ \E product_id \in ProductIds : get_product(product_id)
    \/ \E search_term \in terms : search_products(search_term)
    \/ get_low_stock_products

\* One call made on both systems, with the same arguments.
HandlersBoth(usernames, rows, updates, terms) ==
    \/ \E username \in usernames, password \in Passwords, role \in Roles :
          add_user(username, password, role)
              /\ st_add_user(username, password, role)
    \/ \E username \in usernames, password \in Passwords :
          login(username, password) /\ st_login(username, password)
    \/ logout /\ st_logout
    \/ \E row \in rows :
          /\ add_product(row.name, row.category, row.price, row.stock_quantity)
          /\ st_add_product(row.name, row.category, row.price, row.stock_quantity)
    \/ \E product_id \in ProductIds, fields \in updates :
          update_product(product_id, fields)
              /\ st_update_product(product_id, fields)
    \/ \E product_id \in ProductIds :
          delete_product(product_id) /\ st_delete_product(product_id)
    \/ \E search_term \in terms :
          search_products(search_term) /\ st_search_products(search_term)
    \/ get_low_stock_products /\ st_get_low_stock_products

\* Accounts: any username, password and role; products from the Widget row,
\* updates of the stock quantity.
Next ==
    \/ Tick
    \/ Handlers(Usernames, {Widget}, {[stock_quantity |-> 2]}, {"tool"})
          /\ UNCHANGED st_vars

Spec == Init /\ [][Next]_vars

\* Catalog: the default accounts only; products from both rows, updates of
\* any of the fields to the values of the Blank row.
NextCatalog ==
    \/ Tick
    \/ Handlers(DefaultUsernames, CatalogRows, CatalogUpdates, {"tool"})
          /\ UNCHANGED st_vars

SpecCatalog == Init /\ [][NextCatalog]_vars

\* Queries: the default accounts only; products from the Widget and the
\* Toolbox row, updates of the stock quantity to the threshold, every term.
NextQueries ==
    \/ Tick
    \/ Handlers(DefaultUsernames, {Widget, Toolbox},
                {[stock_quantity |-> stock_threshold]}, Terms)
          /\ UNCHANGED st_vars

SpecQueries == Init /\ [][NextQueries]_vars

\* Both systems: any account; products from the Widget row; updates of name
\* and stock quantity together, and of no field at all.
BothUpdates == {[name |-> "Toolbox", stock_quantity |-> 2], EmptyDict}

NextBoth ==
    \/ Tick
    \/ HandlersBoth(Usernames, {Widget}, BothUpdates, {"tool"})

SpecBoth == Init /\ [][NextBoth]_vars

(***************************************************************************)
(* The properties checked.                                                 *)
(***************************************************************************)
\* The step is a call of the handler op (every step but Tick is a call, and
\* Tick alone moves the clock).
Called(op) == now' = now /\ call'.op = op

Mutating == {"add_product", "update_product", "delete_product"}

\* C1: add_product, update_product and delete_product called while nobody is
\* logged in or while the user logged in has role User raise PermissionError,
\* whatever their arguments (also for a product id that does not exist), and
\* leave the catalog as it was.
C1_NonAdminDenied ==
    [][ (/\ \E op \in Mutating : Called(op)
         /\ (current_user = None \/ current_user.role = "User"))
        => (outcome' = "PermissionError" /\ products' = products) ]_vars

\* C1 happens: a User session was denied an update of an id that is not in
\* the catalog, while the catalog holds records.
C1_Witness ==
    /\ call.op = "update_product"
    /\ outcome = "PermissionError"
    /\ current_user # None
    /\ current_user.role = "User"
    /\ products # EmptyDict
    /\ call.product_id \notin DOMAIN products

\* C2: the id add_product gives to a product is greater than every id an
\* earlier add_product gave, so no id is given twice, also after a delete.
C2_IdsNeverReused ==
    [][ (Called("add_product") /\ outcome' = "True")
        => \A id \in assigned : call'.product_id > id ]_vars

\* C3: every product of the catalog has a price >= 0, a stock quantity >= 0
\* and a name that is not empty.
C3_ProductsValid ==
    \A id \in DOMAIN products :
        /\ products[id].price >= 0
        /\ products[id].stock_quantity >= 0
        /\ products[id].name # ""

\* C4: a successful update_product(product_id, fields) overwrites exactly the
\* fields given, sets last_updated of that product to the time of the call,
\* keeps its other fields and its id, and leaves every other product alone.
C4_UpdateFrame ==
    [][ (Called("update_product") /\ outcome' = "True")
        => \A fields \in CatalogUpdates :
          LET product_id == call'.product_id IN
          update_product(product_id, fields)
          => /\ DOMAIN products' = DOMAIN products
             /\ \A id \in DOMAIN products \ {product_id} :
                   products'[id] = products[id]
             /\ \A k \in FieldNames :
                   products'[product_id][k] =
                      IF k \in DOMAIN fields THEN fields[k]
                      ELSE products[product_id][k]
             /\ products'[product_id].last_updated = now
             /\ products'[product_id].product_id = products[product_id].product_id
      ]_vars

\* C4 happens: an update at time 1 of a product created from the Widget row
\* changed its price and left its name, next to a product last written at 0.
C4_Witness ==
    /\ call.op = "update_product"
    /\ outcome = "True"
    /\ Cardinality(DOMAIN products) = 2
    /\ LET p == products[call.product_id] IN
       /\ p.name = "Widget"
       /\ p.price = -1
       /\ p.last_updated = 1
    /\ \E id \in DOMAIN products : products[id].last_updated = 0

\* C5: a successful delete_product(product_id) removes the record with that
\* id and no other: get_product(product_id) then gives None, every other
\* record is still there with the fields it had.
C5_DeleteExactlyOne ==
    [][ (Called("delete_product") /\ outcome' = "True")
        => LET product_id == call'.product_id IN
           /\ product_id \in DOMAIN products
           /\ Get(products', product_id) = None
           /\ DOMAIN products' = DOMAIN products \ {product_id}
           /\ \A id \in DOMAIN products' : products'[id] = products[id] ]_vars

\* C5 happens: a delete succeeded and another record is still in the catalog.
C5_Witness ==
    /\ call.op = "delete_product"
    /\ outcome = "True"
    /\ call.product_id \notin DOMAIN products
    /\ products # EmptyDict

\* C6: update_product and delete_product called by an Admin session with an
\* id that is not in the catalog raise ValueError and leave the catalog as
\* it was.
C6_MissingIdNotFound ==
    [][ (/\ Called("update_product") \/ Called("delete_product")
         /\ current_user # None
         /\ current_user.role = "Admin"
         /\ call'.product_id \notin DOMAIN products)
        => (outcome' = "ValueError" /\ products' = products) ]_vars

\* C6 happens: an Admin's delete of an id that is not in the catalog raised
\* ValueError while the catalog holds a record.
C6_Witness ==
    /\ call.op = "delete_product"
    /\ outcome = "ValueError"
    /\ current_user # None
    /\ current_user.role = "Admin"
    /\ products # EmptyDict
    /\ call.product_id \notin DOMAIN products

\* C7: counted from the empty catalog with no delete in between, the k-th
\* successful add_product creates the record with id k, holding the name,
\* category, price and stock quantity passed in and the time of the call.
\* By induction on k: without a delete the ids of the catalog stay 1..k-1
\* (no other handler but add_product changes them), and from there a
\* successful add_product creates id k.
C7_KthAddGetsIdK ==
    [][ /\ (now' = now /\ call'.op \notin {"add_product", "delete_product"})
           => DOMAIN products' = DOMAIN products
        /\ (Called("add_product") /\ outcome' # "True")
           => DOMAIN products' = DOMAIN products
        /\ (Called("add_product") /\ outcome' = "True")
           => \A row \in CatalogRows, k \in 1..MaxProducts :
              (/\ add_product(row.name, row.category, row.price, row.stock_quantity)
               /\ DOMAIN products = 1..(k - 1))
              => /\ call'.product_id = k
                 /\ DOMAIN products' = 1..k
                 /\ products'[k] =
                       [product_id |-> k, name |-> row.name,
                        category |-> row.category, price |-> row.price,
                        stock_quantity |-> row.stock_quantity,
                        last_updated |-> now]
      ]_vars

\* C7 happens: the second add_product, at time 1, after a first one at
\* time 0 whose record has had its stock updated since.
C7_Witness ==
    /\ call.op = "add_product"
    /\ outcome = "True"
    /\ call.product_id = 2
    /\ DOMAIN products = {1, 2}
    /\ products[1].last_updated = 0
    /\ products[1].stock_quantity = 2
    /\ products[2].last_updated = 1
    /\ products[2].stock_quantity = 3

\* C8: add_user with a username of the store returns False and leaves the
\* store as it was, whatever password and role it passes; add_user with a
\* new username returns True and adds that one record, with the role passed
\* and a hash the password passed verifies against.
C8_AddUser ==
    [][ Called("add_user")
        => \A username \in Usernames, password \in Passwords, role \in Roles :
          add_user(username, password, role)
          => IF username \in DOMAIN users
             THEN outcome' = "False" /\ users' = users
             ELSE /\ outcome' = "True"
                  /\ DOMAIN users' = DOMAIN users \cup {username}
                  /\ \A u \in DOMAIN users : users'[u] = users[u]
                  /\ users'[username].username = username
                  /\ users'[username].role = role
                  /\ check_password(users'[username], password)
      ]_vars

\* C8 happens: add_user was refused for a username added after construction.
C8_Witness ==
    /\ call.op = "add_user"
    /\ outcome = "False"
    /\ "bob" \in DOMAIN users
    /\ users["bob"].role = "User"
    /\ registered["bob"] = "admin123"

\* C9: login(username, password) returns True exactly when the username is
\* in the store and the password is the one it was registered with; the
\* session is then that user's record; a failed login while nobody is logged
\* in leaves nobody logged in.
C9_Login ==
    [][ Called("login")
        => \A username \in Usernames, password \in Passwords :
          login(username, password)
          => /\ outcome' = "True" <=>
                   (username \in DOMAIN users /\ registered[username] = password)
             /\ outcome' = "True" => current_user' = users[username]
             /\ (outcome' = "False" /\ current_user = None) => current_user' = None
      ]_vars

\* C9 happens: a user added after construction is logged in.
C9_Witness ==
    /\ call.op = "login"
    /\ outcome = "True"
    /\ current_user # None
    /\ current_user.username = "bob"
    /\ current_user = users["bob"]

\* C10: nobody is logged in at the start; logout leaves nobody logged in,
\* whoever was, and leaves the store and the catalog as they were; from then
\* on the mutating calls are denied, and only a successful login of an Admin
\* ends that.
C10_Logout ==
    /\ current_user = None
    /\ [][ /\ Called("logout")
              => /\ current_user' = None
                 /\ users' = users
                 /\ products' = products
           /\ (current_user = None /\ \E op \in Mutating : Called(op))
              => /\ outcome' = "PermissionError"
                 /\ products' = products
                 /\ current_user' = None
           /\ (/\ current_user = None \/ current_user.role # "Admin"
               /\ current_user' # None
               /\ current_user'.role = "Admin")
              => /\ Called("login")
                 /\ outcome' = "True"
         ]_vars

\* C10 happens: after an Admin filled the catalog and logged out, a delete
\* of a record of the catalog was denied.
C10_Witness ==
    /\ call.op = "delete_product"
    /\ outcome = "PermissionError"
    /\ current_user = None
    /\ call.product_id \in DOMAIN products

\* C11: as long as no handler has run since construction, the store holds
\* exactly the accounts admin and user, admin has the role Admin and verifies
\* with admin123, user has the role User and verifies with user123, and the
\* catalog is empty.
C11_SeededAccounts ==
    call.op = "__init__" =>
        /\ DOMAIN users = {"admin", "user"}
        /\ users["admin"].role = "Admin"
        /\ users["admin"].username = "admin"
        /\ check_password(users["admin"], "admin123")
        /\ users["user"].role = "User"
        /\ users["user"].username = "user"
        /\ check_password(users["user"], "user123")
        /\ DOMAIN products = {}

\* The constructed system, some time after its construction.
C11_Witness ==
    /\ call.op = "__init__"
    /\ now = MaxClock
    /\ Cardinality(DOMAIN users) = 2


\* C12: the list get_low_stock_products returned holds every record of the
\* catalog with stock_quantity <= stock_threshold exactly once, and nothing
\* else.
C12_LowStockExact ==
    call.op = "get_low_stock_products" =>
        /\ \A i \in 1..Len(returned) :
              \E id \in DOMAIN products : returned[i] = products[id]
        /\ \A id \in DOMAIN products :
              Cardinality({i \in 1..Len(returned) : returned[i] = products[id]})
                  = IF products[id].stock_quantity <= stock_threshold THEN 1 ELSE 0

\* C12 happens: of two records, the one at the threshold was returned and
\* the one above it was not.
C12_Witness ==
    /\ call.op = "get_low_stock_products"
    /\ Cardinality(DOMAIN products) = 2
    /\ Len(returned) = 1
    /\ returned[1].stock_quantity = stock_threshold
    /\ \E id \in DOMAIN products : products[id].stock_quantity > stock_threshold


\* C13: the list search_products returned holds exactly the records of the
\* catalog for which the lower-cased term is a piece of the lower-cased name
\* or of the lower-cased category, each once.
C13_SearchExact ==
    call.op = "search_products" =>
        LET term == lower(Chars(call.search_term))
            Piece(text) ==
                \E i \in 1..(Len(text) + 1) :
                    \E j \in (i - 1)..Len(text) : SubSeq(text, i, j) = term
            Hit(product) ==
                \/ Piece(lower(Chars(product.name)))
                \/ Piece(lower(Chars(product.category)))
        IN  /\ \A i \in 1..Len(returned) :
                  \E id \in DOMAIN products : returned[i] = products[id]
            /\ \A id \in DOMAIN products :
                  Cardinality({i \in 1..Len(returned) : returned[i] = products[id]})
                      = IF Hit(products[id]) THEN 1 ELSE 0

\* C13 happens: the search for "tool" returned a record that matches by its
\* category only and a record that matches by its name only.
C13_Witness ==
    /\ call.op = "search_products"
    /\ call.search_term = "tool"
    /\ Len(returned) = 2
    /\ \E i \in 1..2 : returned[i].name = "Widget" /\ returned[i].category = "Tools"
    /\ \E i \in 1..2 : returned[i].name = "Toolbox" /\ returned[i].category = "Toys"


\* C14: a record leaves the catalog only in a successful delete_product of
\* its id, its fields change only in an update_product of its id, and a
\* successful add_product adds exactly one record and leaves every record
\* that was there present and unchanged.
C14_RecordOwnership ==
    [][/\ \A id \in DOMAIN products :
            /\ id \notin DOMAIN products' =>
                   /\ Called("delete_product")
                   /\ call'.product_id = id
                   /\ outcome' = "True"
            /\ (id \in DOMAIN products' /\ products'[id] # products[id]) =>
                   /\ Called("update_product")
                   /\ call'.product_id = id
       /\ (Called("add_product") /\ outcome' = "True") =>
            /\ Cardinality(DOMAIN products') = Cardinality(DOMAIN products) + 1
            /\ \A id \in DOMAIN products :
                   id \in DOMAIN products' /\ products'[id] = products[id]
      ]_vars


\* C15: a successful login made while another user is logged in makes the
\* newly verified user the session, with no logout in between; the session
\* changes in a login or a logout only, and a mutating handler is denied
\* exactly when the session of the moment is not an Admin, so the role of
\* the new user decides from then on.
C15_LoginReplaces ==
    [][ /\ (Called("login") /\ outcome' = "True" /\ current_user # None)
            => \A username \in Usernames, password \in Passwords :
                 login(username, password)
                 => /\ current_user' = users[username]
                    /\ current_user'.username = username
                    /\ current_user'.role = users[username].role
        /\ current_user' # current_user
            => (Called("login") \/ Called("logout"))
        /\ (\E op \in Mutating : Called(op))
            => (outcome' = "PermissionError"
                  <=> (current_user = None \/ current_user.role # "Admin"))
      ]_vars

\* C15 happens: a User logged in over the session of the Admin who filled
\* the catalog.
C15_Witness ==
    /\ call.op = "login"
    /\ outcome = "True"
    /\ call.prior = "admin"
    /\ current_user # None
    /\ current_user.role = "User"
    /\ products # EmptyDict


\* C16: a login with a username that is not in the store or with a password
\* other than the registered one returns False and leaves the session, the
\* store and the catalog as they were, also when somebody is logged in.
C16_FailedLoginFrame ==
    [][ Called("login")
        => \A username \in Usernames, password \in Passwords :
             (/\ login(username, password)
              /\ (username \notin DOMAIN users \/ registered[username] # password))
             => /\ outcome' = "False"
                /\ current_user' = current_user
                /\ users' = users
                /\ products' = products
      ]_vars

\* C16 happens: a login failed while the Admin who filled the catalog was
\* logged in, and the Admin still is.
C16_Witness ==
    /\ call.op = "login"
    /\ outcome = "False"
    /\ call.prior = "admin"
    /\ current_user # None
    /\ current_user = users["admin"]
    /\ current_user.role = "Admin"
    /\ products # EmptyDict


\* C17 as stated: the last_updated of a record is the time of the last step
\* that created the record or changed one of its four fields; every other
\* step leaves it as it was.
C17_StampOfLastFieldChange ==
    [][ \A id \in DOMAIN products' :
          LET created ==
                  \/ id \notin DOMAIN products
                  \/ /\ Called("add_product")
                     /\ outcome' = "True"
                     /\ call'.product_id = id
              changed ==
                  /\ id \in DOMAIN products
                  /\ \E k \in FieldNames : products'[id][k] # products[id][k]
          IN  IF created \/ changed
              THEN products'[id].last_updated = now
              ELSE products'[id].last_updated = products[id].last_updated
      ]_vars

\* C17: the last_updated of a record is the time of the last successful
\* add_product that stored it or update_product of its id, whether or not
\* the update gave a value that differs; failed calls and calls about other
\* ids leave it as it was.
C17_StampOfLastWrite ==
    [][ \A id \in DOMAIN products' :
          IF /\ Called("add_product") \/ Called("update_product")
             /\ outcome' = "True"
             /\ call'.product_id = id
          THEN products'[id].last_updated = now
          ELSE /\ id \in DOMAIN products
               /\ products'[id].last_updated = products[id].last_updated
      ]_vars

\* C17 happens: an update stamped its record with a later time than the one
\* another record keeps from its creation.
C17_Witness ==
    /\ call.op = "update_product"
    /\ outcome = "True"
    /\ now > 0
    /\ products[call.product_id].last_updated = now
    /\ \E id \in DOMAIN products : products[id].last_updated < now


Reads == {"get_product", "search_products", "get_low_stock_products"}

\* C18: get_product, search_products and get_low_stock_products raise
\* nothing, whoever is or is not logged in, and leave the store, the catalog
\* with every last_updated, and the session as they were.
C18_ReadsFrame ==
    [][ (\E op \in Reads : Called(op))
        => /\ outcome' \in {"None", "Product", "List"}
           /\ users' = users
           /\ products' = products
           /\ order' = order
           /\ current_user' = current_user
      ]_vars

\* C18 happens: with nobody logged in and time gone by since the catalog was
\* filled, a search returned a record.
C18_Witness ==
    /\ call.op = "search_products"
    /\ outcome = "List"
    /\ current_user = None
    /\ Len(returned) > 0
    /\ returned[1].last_updated < now


\* C19: every step keeps every username of the store, with its password hash
\* and its role; the hash is the one of the password the username was
\* registered with; and whoever is logged in is a record of the store.
C19_StoreOnlyGrows ==
    /\ [](/\ \A username \in DOMAIN users :
               /\ users[username].username = username
               /\ users[username].password = _hash_password(registered[username])
          /\ current_user # None =>
               /\ current_user.username \in DOMAIN users
               /\ current_user = users[current_user.username])
    /\ [][ \A username \in DOMAIN users :
             /\ username \in DOMAIN users'
             /\ users'[username] = users[username] ]_vars

\* C19 happens: while bob, registered after construction as a User, is
\* logged in, a second registration of a username of the store was refused.
C19_Witness ==
    /\ call.op = "add_user"
    /\ outcome = "False"
    /\ current_user # None
    /\ current_user.username = "bob"
    /\ current_user.role = "User"
    /\ current_user = users["bob"]


\* C20: called with the same arguments from their initial states, the
\* systems of main.py and of product.py give the same outcome at every call
\* and hold the same users, the same catalog in the same order and the same
\* session after it.
C20_FrontEndsEquivalent ==
    /\ session_state.users = users
    /\ session_state.products = products
    /\ st_order = order
    /\ session_state.current_user = current_user
    /\ session_state.stock_threshold = stock_threshold
    /\ st_outcome = outcome
    /\ st_returned = returned

\* C20 happens: both systems, after an update that renamed one of two
\* records and with a user added after construction, answered a search with
\* the same list of two records.
C20_Witness ==
    /\ call.op = "search_products"
    /\ st_outcome = "List"
    /\ Len(st_returned) = 2
    /\ st_returned = returned
    /\ \E i \in 1..2 : st_returned[i].name = "Toolbox"
    /\ \E i \in 1..2 : st_returned[i].name = "Widget"
    /\ "bob" \in DOMAIN session_state.users

====
